---- MODULE Spec2Model ----
(***************************************************************************)
(* State-machine model of the client-side services of                      *)
(* blind-dinner-enterprise (src/src/App.test.tsx):                         *)
(*   - RealtimeService   : the WebSocket push client with its subscription *)
(*                         registry and reconnect policy;                  *)
(*   - NotificationService: the in-memory notification queue with its      *)
(*                         auto-removal timers.                            *)
(* JavaScript is single threaded: every handler below runs to completion,  *)
(* so each handler is one action.                                          *)
(***************************************************************************)
EXTENDS Integers, Sequences, FiniteSets, TLC

(***************************************************************************)
(* Bounds of the model.                                                    *)
(***************************************************************************)
\* sockets that are not yet CLOSED at the same time
MaxLive == 2
\* reconnect timers outstanding at the same time
MaxPending == 2
\* cap of the history counter of consecutive closes
MaxCloses == 7
\* texts kept on the wire
MaxSent == 1
\* notices in the list at the same time
MaxNotes == 2
\* auto-removal timers outstanding at the same time
MaxTimers == 2
\* ms the clock advances in one step, and the number of steps
TickMs == 2500
MaxTicks == 2
MaxRequests == 1

(***************************************************************************)
(* Program constants.                                                      *)
(***************************************************************************)
maxReconnectAttempts == 5
reconnectInterval == 1000
\* the delay of the auto-removal timer, in ms
AutoRemoveDelay == 5000

VARIABLES
    \* ---- RealtimeService ----
    ws,                 \* this.ws: 0 (null) or an index into socks
    socks,              \* the WebSocket objects that can still matter
    reconnectAttempts,  \* this.reconnectAttempts
    reconnectTimers,    \* pending setTimeout callbacks of handleReconnect
    subscribers,        \* this.subscribers: Map<string, Set<callback>>
    wire,               \* texts handed to WebSocket.send
    connectionStatus,   \* RealtimeProvider's connectionStatus state
    closes,             \* history: closes since the last open (capped)
    \* ---- NotificationService ----
    now,                \* the clock Date.now() reads, in ms
    notifications,      \* this.notifications, newest first
    removeTimers,       \* pending setTimeout(() => this.remove(id), 5000)
    nqSubscribers,      \* this.subscribers: Set<callback>
    \* ---- AuthProvider ----
    mounted,            \* whether the provider has rendered for the first time
    user,               \* the user state
    loading,            \* the loading state
    authToken,          \* the token state
    storage,            \* localStorage's auth_token
    apiToken,           \* apiService.current's token
    requests,           \* HTTP requests in flight, per endpoint: their bearer tokens
    loggedOut,          \* history: logout ran and no login or register succeeded since
    \* ---- all ----
    last                \* history: the handler that ran last, and what it did

rtState == <<ws, socks, reconnectAttempts, reconnectTimers, subscribers, wire,
             connectionStatus, closes>>

nqVars == <<now, notifications, removeTimers, nqSubscribers>>

authVars == <<mounted, user, loading, authToken, storage, apiToken, requests, loggedOut>>

vars == <<rtState, nqVars, authVars, last>>

(***************************************************************************)
(* Small helpers on sequences.                                             *)
(***************************************************************************)
Range(s) == {s[i] : i \in 1..Len(s)}

Min(a, b) == IF a < b THEN a ELSE b

RECURSIVE Without(_, _)
\* s with every element equal to x removed, order kept
Without(s, x) ==
    IF s = <<>> THEN <<>>
    ELSE IF Head(s) = x THEN Without(Tail(s), x)
    ELSE <<Head(s)>> \o Without(Tail(s), x)

RECURSIVE InsertSorted(_, _)
\* an ascending sequence of numbers with d inserted
InsertSorted(s, d) ==
    IF s = <<>> THEN <<d>>
    ELSE IF d <= Head(s) THEN <<d>> \o s
    ELSE <<Head(s)>> \o InsertSorted(Tail(s), d)

(***************************************************************************)
(* The inputs.                                                             *)
(***************************************************************************)
Tokens == {"tok"}

EventTypes == {"connection", "online_users"}

\* callbacks handed to subscribe: the provider's connection callback, an
\* ordinary listener, and one that throws
Callbacks == {"setConnectionStatus", "listener", "thrower"}

Payloads == {[status |-> "connected"], [status |-> "reconnecting"], [count |-> 2]}

\* data.status as the provider's callback reads it
StatusOf(data) ==
    IF "status" \in DOMAIN data THEN data.status ELSE "undefined"

\* JSON.stringify({ type, payload }): a payload of undefined drops the key
JSONstringify(type, payload) ==
    IF payload = [undefined |-> TRUE]
    THEN [kind |-> "object", type |-> type]
    ELSE [kind |-> "object", type |-> type, payload |-> payload]

\* what reading a missing property of an object gives; no caller subscribes
\* under it (subscribe takes a string)
Undefined == "(undefined)"

\* texts the server may deliver: envelopes, text that is not JSON, the JSON
\* text null, and a JSON object without a type
Inbound ==
    {[kind |-> "object", type |-> t, payload |-> p] : t \in EventTypes, p \in Payloads}
    \cup {[kind |-> "invalid"], [kind |-> "null"], [kind |-> "object"]}

\* JSON.parse(event.data): throws on text that is not JSON
JSONparse(text) ==
    IF text.kind = "invalid" THEN [ok |-> FALSE]
    ELSE [ok |-> TRUE,
          null |-> text.kind = "null",
          type |-> IF "type" \in DOMAIN text THEN text.type ELSE Undefined,
          payload |-> IF "payload" \in DOMAIN text THEN text.payload
                      ELSE [undefined |-> TRUE]]

(***************************************************************************)
(* Subscription registry.                                                  *)
(***************************************************************************)
\* the callback that "canceller" unsubscribes when it runs: it holds the
\* handle of that callback under the key it is registered under itself
Cancelled == "listener"

\* callbacks.forEach(callback => callback(data)): insertion order, and a
\* throwing callback ends the loop. The loop walks the Set itself: a callback
\* deleted from it before its turn is not visited. cbs is the Set as it is
\* now, i the position of the callback whose turn it is; set is the Set the
\* loop leaves behind.
RECURSIVE ForEach(_, _, _)
ForEach(cbs, i, acc) ==
    IF i > Len(cbs) THEN [invoked |-> acc, threw |-> FALSE, set |-> cbs]
    ELSE IF cbs[i] = "thrower"
         THEN [invoked |-> Append(acc, cbs[i]), threw |-> TRUE, set |-> cbs]
         ELSE IF cbs[i] = "canceller"
              THEN LET behind == \E j \in 1..(i - 1) : cbs[j] = Cancelled
                   IN ForEach(Without(cbs, Cancelled),
                              IF behind THEN i ELSE i + 1,
                              Append(acc, cbs[i]))
              ELSE ForEach(cbs, i + 1, Append(acc, cbs[i]))

\* the registry once the dispatch of eventType has left set under that key
AfterDispatch(eventType, set) ==
    [k \in DOMAIN subscribers |-> IF k = eventType THEN set ELSE subscribers[k]]

Registered(eventType) ==
    IF eventType \in DOMAIN subscribers THEN subscribers[eventType] ELSE <<>>

\* onEvent(eventType, data): what the dispatch invoked
onEvent(eventType, data) == ForEach(Registered(eventType), 1, <<>>)

\* the provider's React state after a dispatch
StatusAfter(run, data) ==
    IF "setConnectionStatus" \in Range(run.invoked)
    THEN StatusOf(data) ELSE connectionStatus

\* how often callback cb occurs among the invoked ones
Times(invoked, cb) == Cardinality({k \in 1..Len(invoked) : invoked[k] = cb})

\* Set.add: no duplicate, insertion order kept
SetAdd(s, x) == IF x \in Range(s) THEN s ELSE Append(s, x)

subscribe(eventType, callback) ==
    /\ subscribers' =
         [k \in DOMAIN subscribers \cup {eventType} |->
            IF k = eventType THEN SetAdd(Registered(k), callback)
            ELSE subscribers[k]]
    \* added: whether Set.add had anything to add
    /\ last' = [op |-> "subscribe", key |-> eventType, cb |-> callback,
                added |-> callback \notin Range(Registered(eventType))]
    /\ UNCHANGED <<ws, socks, reconnectAttempts, reconnectTimers, wire,
                   connectionStatus, closes>>

\* a handle that deletes the callback under every key
unsubscribeEverywhere(eventType, callback) ==
    /\ subscribers' =
         [k \in DOMAIN subscribers |-> Without(subscribers[k], callback)]
    /\ last' = [op |-> "unsubscribe", key |-> eventType, cb |-> callback,
                deleted |-> callback \in Range(subscribers[eventType])]
    /\ UNCHANGED <<ws, socks, reconnectAttempts, reconnectTimers, wire,
                   connectionStatus, closes>>

\* the handle returned by subscribe: this.subscribers.get(eventType)?.delete(callback)
\* deleted: what Set.delete returns, whether the callback was in the set
unsubscribe(eventType, callback) ==
    /\ subscribers' =
         [k \in DOMAIN subscribers |->
            IF k = eventType THEN Without(subscribers[k], callback)
            ELSE subscribers[k]]
    /\ last' = [op |-> "unsubscribe", key |-> eventType, cb |-> callback,
                deleted |-> callback \in Range(subscribers[eventType])]
    /\ UNCHANGED <<ws, socks, reconnectAttempts, reconnectTimers, wire,
                   connectionStatus, closes>>

(***************************************************************************)
(* Transport: the WebSocket objects.  A socket that is CLOSED and that     *)
(* this.ws does not reference delivers no further event and is dropped.    *)
(***************************************************************************)
Live(ss) == {i \in 1..Len(ss) : ss[i].readyState # "CLOSED"}

RECURSIVE Kept(_, _, _)
\* the sockets of ss from index i on that are live or referenced by w
Kept(ss, w, i) ==
    IF i > Len(ss) THEN <<>>
    ELSE IF ss[i].readyState # "CLOSED" \/ i = w
         THEN <<ss[i]>> \o Kept(ss, w, i + 1)
         ELSE Kept(ss, w, i + 1)

\* the index of socket w once the dropped sockets before it are gone
Reindex(ss, w) ==
    IF w = 0 THEN 0
    ELSE Cardinality({i \in 1..w : ss[i].readyState # "CLOSED" \/ i = w})

SetSockets(ss, w) ==
    /\ socks' = Kept(ss, w, 1)
    /\ ws' = Reindex(ss, w)

\* WebSocket.close(): CONNECTING and OPEN sockets start closing
CloseCalled(sock) ==
    IF sock.readyState \in {"CONNECTING", "OPEN"}
    THEN [sock EXCEPT !.readyState = "CLOSING"] ELSE sock

wsOpen == ws # 0 /\ socks[ws].readyState = "OPEN"

(***************************************************************************)
(* RealtimeService.                                                        *)
(***************************************************************************)
connect(token) ==
    IF wsOpen
    THEN /\ last' = [op |-> "connect", created |-> FALSE]
         /\ UNCHANGED <<ws, socks, reconnectAttempts, reconnectTimers,
                        subscribers, wire, connectionStatus, closes>>
    ELSE /\ Cardinality(Live(socks)) < MaxLive
         /\ SetSockets(Append(socks, [readyState |-> "CONNECTING", token |-> token]),
                       Len(socks) + 1)
         /\ last' = [op |-> "connect", created |-> TRUE]
         /\ UNCHANGED <<reconnectAttempts, reconnectTimers, subscribers, wire,
                        connectionStatus, closes>>

\* handleReconnect with the bound off by one
handleReconnectOffByOne ==
    IF reconnectAttempts <= maxReconnectAttempts
    THEN /\ reconnectAttempts' = reconnectAttempts + 1
         /\ reconnectTimers' =
              InsertSorted(reconnectTimers, reconnectInterval * (reconnectAttempts + 1))
    ELSE UNCHANGED <<reconnectAttempts, reconnectTimers>>

handleReconnect ==
    IF reconnectAttempts < maxReconnectAttempts
    THEN /\ reconnectAttempts' = reconnectAttempts + 1
         /\ reconnectTimers' =
              InsertSorted(reconnectTimers, reconnectInterval * (reconnectAttempts + 1))
    ELSE UNCHANGED <<reconnectAttempts, reconnectTimers>>

\* ws.onopen
onopen(i) ==
    /\ socks[i].readyState = "CONNECTING"
    /\ SetSockets([socks EXCEPT ![i].readyState = "OPEN"], ws)
    /\ reconnectAttempts' = 0
    /\ closes' = 0
    /\ LET data == [status |-> "connected"]
           run == onEvent("connection", data)
       IN /\ connectionStatus' = StatusAfter(run, data)
          /\ last' = [op |-> "open", key |-> "connection",
                      registered |-> Registered("connection"),
                      invoked |-> run.invoked, threw |-> run.threw,
                      escaped |-> run.threw]
          /\ subscribers' = AfterDispatch("connection", run.set)
    /\ UNCHANGED <<reconnectTimers, wire>>

\* ws.onmessage without its try/catch
onmessageNoCatch(i, text) ==
    /\ socks[i].readyState = "OPEN"
    /\ LET data == JSONparse(text)
       IN IF data.ok /\ ~data.null
          THEN LET run == onEvent(data.type, data.payload)
               IN /\ connectionStatus' = StatusAfter(run, data.payload)
                  /\ subscribers' = AfterDispatch(data.type, run.set)
                  /\ last' = [op |-> "message", text |-> text, key |-> data.type,
                              registered |-> Registered(data.type),
                              invoked |-> run.invoked, threw |-> run.threw,
                              escaped |-> run.threw]
          ELSE /\ last' = [op |-> "message", text |-> text, key |-> Undefined,
                           registered |-> <<>>, invoked |-> <<>>,
                           threw |-> FALSE, escaped |-> TRUE]
               /\ UNCHANGED <<connectionStatus, subscribers>>
    /\ UNCHANGED <<ws, socks, reconnectAttempts, reconnectTimers, wire, closes>>

\* ws.onmessage: JSON.parse throws on text that is not JSON and data.type
\* throws on null; the catch logs either, and a callback's exception too
onmessage(i, text) ==
    /\ socks[i].readyState = "OPEN"
    /\ LET data == JSONparse(text)
       IN IF data.ok /\ ~data.null
          THEN LET run == onEvent(data.type, data.payload)
               IN /\ connectionStatus' = StatusAfter(run, data.payload)
                  /\ subscribers' = AfterDispatch(data.type, run.set)
                  /\ last' = [op |-> "message", text |-> text, key |-> data.type,
                              registered |-> Registered(data.type),
                              invoked |-> run.invoked, threw |-> run.threw,
                              escaped |-> FALSE]
          ELSE /\ last' = [op |-> "message", text |-> text, key |-> Undefined,
                           registered |-> <<>>, invoked |-> <<>>,
                           threw |-> FALSE, escaped |-> FALSE]
               /\ UNCHANGED <<connectionStatus, subscribers>>
    /\ UNCHANGED <<ws, socks, reconnectAttempts, reconnectTimers, wire, closes>>

\* ws.onclose
onclose(i) ==
    /\ socks[i].readyState # "CLOSED"
    \* bound: a close that schedules a timer waits for room among the timers
    /\ Len(reconnectTimers) < MaxPending \/ reconnectAttempts >= maxReconnectAttempts
    /\ SetSockets([socks EXCEPT ![i].readyState = "CLOSED"], ws)
    /\ handleReconnect
    /\ closes' = Min(closes + 1, MaxCloses)
    /\ last' = [op |-> "close", was |-> socks[i].readyState]
    /\ UNCHANGED <<subscribers, wire, connectionStatus>>

\* ws.onerror: logs
onerror(i) ==
    /\ socks[i].readyState # "CLOSED"
    /\ UNCHANGED vars

\* the setTimeout callback of handleReconnect: logs, opens nothing
ReconnectTimerFires ==
    /\ reconnectTimers # <<>>
    /\ Head(reconnectTimers) = 0
    /\ reconnectTimers' = Tail(reconnectTimers)
    /\ last' = [op |-> "reconnectTimer", attempt |-> reconnectAttempts]
    /\ UNCHANGED <<ws, socks, reconnectAttempts, subscribers, wire,
                   connectionStatus, closes>>
    /\ UNCHANGED <<nqVars, authVars>>

\* time passes until the next reconnect timer is due
Elapse ==
    /\ reconnectTimers # <<>>
    /\ Head(reconnectTimers) > 0
    /\ reconnectTimers' =
         [k \in 1..Len(reconnectTimers) |-> reconnectTimers[k] - Head(reconnectTimers)]
    /\ last' = [op |-> "elapse"]
    /\ UNCHANGED <<ws, socks, reconnectAttempts, subscribers, wire,
                   connectionStatus, closes>>
    /\ UNCHANGED <<nqVars, authVars>>

\* send that tests this.ws only, not its readyState
sendUnguarded(type, payload) ==
    IF ws # 0
    THEN /\ Len(wire) < MaxSent
         /\ wire' = Append(wire, JSONstringify(type, payload))
         /\ last' = [op |-> "send", open |-> TRUE, type |-> type, payload |-> payload]
         /\ UNCHANGED <<ws, socks, reconnectAttempts, reconnectTimers,
                        subscribers, connectionStatus, closes>>
    ELSE /\ last' = [op |-> "send", open |-> FALSE, type |-> type, payload |-> payload]
         /\ UNCHANGED <<ws, socks, reconnectAttempts, reconnectTimers,
                        subscribers, wire, connectionStatus, closes>>

send(type, payload) ==
    IF wsOpen
    THEN /\ Len(wire) < MaxSent
         /\ wire' = Append(wire, JSONstringify(type, payload))
         /\ last' = [op |-> "send", open |-> TRUE, type |-> type, payload |-> payload]
         /\ UNCHANGED <<ws, socks, reconnectAttempts, reconnectTimers,
                        subscribers, connectionStatus, closes>>
    ELSE /\ last' = [op |-> "send", open |-> FALSE, type |-> type, payload |-> payload]
         /\ UNCHANGED <<ws, socks, reconnectAttempts, reconnectTimers,
                        subscribers, wire, connectionStatus, closes>>

disconnect ==
    /\ IF ws # 0
       THEN SetSockets([socks EXCEPT ![ws] = CloseCalled(socks[ws])], 0)
       ELSE UNCHANGED <<ws, socks>>
    /\ last' = [op |-> "disconnect", had |-> ws # 0]
    /\ UNCHANGED <<reconnectAttempts, reconnectTimers, subscribers, wire,
                   connectionStatus, closes>>

(***************************************************************************)
(* Specifications of the push client.                                      *)
(***************************************************************************)
Init ==
    /\ ws = 0
    /\ socks = <<>>
    /\ reconnectAttempts = 0
    /\ reconnectTimers = <<>>
    /\ subscribers = [k \in {} |-> <<>>]
    /\ wire = <<>>
    /\ connectionStatus = "disconnected"
    /\ closes = 0
    /\ now = 0
    /\ notifications = <<>>
    /\ removeTimers = <<>>
    /\ nqSubscribers = <<>>
    /\ mounted = FALSE
    /\ user = "null"
    /\ loading = TRUE
    /\ authToken = "null"
    /\ storage = "null"
    /\ apiToken = "null"
    /\ requests = [e \in {"login", "register", "getProfile", "updateProfile"} |-> <<>>]
    /\ loggedOut = FALSE
    /\ last = [op |-> "new"]

SendTypes == {"ping"}
SendPayloads == {[text |-> "hi"], [undefined |-> TRUE]}

Connect == (\E token \in Tokens : connect(token)) /\ UNCHANGED <<nqVars, authVars>>
Disconnect == (disconnect) /\ UNCHANGED <<nqVars, authVars>>
Send == (\E type \in SendTypes, payload \in SendPayloads : send(type, payload)) /\ UNCHANGED <<nqVars, authVars>>
TransportOpen == (\E i \in 1..Len(socks) : onopen(i)) /\ UNCHANGED <<nqVars, authVars>>
TransportClose == (\E i \in 1..Len(socks) : onclose(i)) /\ UNCHANGED <<nqVars, authVars>>
TransportError == \E i \in 1..Len(socks) : onerror(i)

TransportMessage == (\E i \in 1..Len(socks), text \in Inbound : onmessage(i, text)) /\ UNCHANGED <<nqVars, authVars>>
Subscribe == (\E k \in EventTypes, cb \in Callbacks : subscribe(k, cb)) /\ UNCHANGED <<nqVars, authVars>>
\* a handle exists for every (key, callback) that was subscribed
Unsubscribe ==
    /\ \E k \in DOMAIN subscribers, cb \in Callbacks : unsubscribe(k, cb)
    /\ UNCHANGED <<nqVars, authVars>>

\* the provider subscribes its callback to the connection event
SubscribeConnection == (subscribe("connection", "setConnectionStatus")) /\ UNCHANGED <<nqVars, authVars>>
UnsubscribeConnection ==
    /\ "connection" \in DOMAIN subscribers
    /\ unsubscribe("connection", "setConnectionStatus")
    /\ UNCHANGED <<nqVars, authVars>>

\* the connection lifecycle as the provider drives it
Next ==
    \/ Connect
    \/ Disconnect
    \/ TransportOpen
    \/ TransportClose
    \/ TransportError
    \/ ReconnectTimerFires
    \/ Elapse
    \/ SubscribeConnection
    \/ UnsubscribeConnection

Spec == Init /\ [][Next]_vars

\* a caller that sends while the connection comes and goes
NextSend ==
    \/ Connect
    \/ Disconnect
    \/ Send
    \/ TransportOpen
    \/ TransportClose
    \/ ReconnectTimerFires
    \/ Elapse

SpecSend == Init /\ [][NextSend]_vars

\* the registry and its dispatch on a transport that stays up
NextReg ==
    \/ Connect
    \/ TransportOpen
    \/ TransportMessage
    \/ Subscribe
    \/ Unsubscribe

SpecReg == Init /\ [][NextReg]_vars

\* callbacks of which one unsubscribes another while a dispatch runs
CancelCallbacks == {"listener", "canceller", "setConnectionStatus"}

SubscribeCancel ==
    (\E k \in EventTypes, cb \in CancelCallbacks : subscribe(k, cb)) /\ UNCHANGED <<nqVars, authVars>>
UnsubscribeCancel ==
    /\ \E k \in DOMAIN subscribers, cb \in CancelCallbacks : unsubscribe(k, cb)
    /\ UNCHANGED <<nqVars, authVars>>

\* the registry with a callback that invokes another callback's handle
NextCancel ==
    \/ Connect
    \/ TransportOpen
    \/ TransportMessage
    \/ SubscribeCancel
    \/ UnsubscribeCancel

SpecCancel == Init /\ [][NextCancel]_vars

(***************************************************************************)
(* NotificationService.                                                    *)
(***************************************************************************)
Messages == {"Saved"}

\* ids a caller may pass in the options of success/error/warning/info
OverrideIds == {"2500"}

\* the options of the convenience constructors: Partial<Notification>
Options ==
    {<<>>, [persistent |-> TRUE], [persistent |-> FALSE], [read |-> TRUE]}
    \cup {[id |-> x] : x \in OverrideIds}

\* { ...base, ...over }: the later spread wins
Spread(base, over) ==
    [k \in DOMAIN base \cup DOMAIN over |->
        IF k \in DOMAIN over THEN over[k] ELSE base[k]]

\* !notification.persistent is false
Persistent(n) == "persistent" \in DOMAIN n /\ n.persistent

\* a fan-out that reaches nobody
notifyNobody == [invoked |-> <<>>, threw |-> FALSE]

\* this.subscribers.forEach(callback => callback(this.notifications))
notifySubscribers == ForEach(nqSubscribers, 1, <<>>)

add(notification) ==
    LET id == ToString(now)
        newNotification ==
            Spread([id |-> id, timestamp |-> now, read |-> FALSE], notification)
        run == notifySubscribers
    IN \* bounds: room in the list and among the timers
       /\ Len(notifications) < MaxNotes
       /\ Len(removeTimers) < MaxTimers
       /\ notifications' = <<newNotification>> \o notifications
       \* a throwing subscriber leaves add before the timer is set
       /\ removeTimers' =
            IF ~run.threw /\ ~Persistent(notification)
            THEN Append(removeTimers, [id |-> id, due |-> now + AutoRemoveDelay])
            ELSE removeTimers
       \* passed: the list the callbacks receive, read after the unshift
       /\ last' = [op |-> "add", id |-> id, invoked |-> run.invoked,
                   threw |-> run.threw, passed |-> notifications']
       /\ UNCHANGED <<now, nqSubscribers>>

\* a filter that stops at the first match and drops the rest of the list
FilteredUpTo(list, id) ==
    IF \E k \in 1..Len(list) : list[k].id = id
    THEN SubSeq(list, 1, (CHOOSE k \in 1..Len(list) :
                             /\ list[k].id = id
                             /\ \A j \in 1..(k - 1) : list[j].id # id) - 1)
    ELSE list

\* this.notifications.filter(n => n.id !== id)
RECURSIVE Filtered(_, _)
Filtered(list, id) ==
    IF list = <<>> THEN <<>>
    ELSE IF Head(list).id # id THEN <<Head(list)>> \o Filtered(Tail(list), id)
    ELSE Filtered(Tail(list), id)

\* afterAdd: the call before this one was the add that returned id
remove(id, caller) ==
    /\ notifications' = Filtered(notifications, id)
    /\ last' = [op |-> caller, id |-> id,
                invoked |-> notifySubscribers.invoked,
                threw |-> notifySubscribers.threw,
                passed |-> notifications',
                afterAdd |-> (last.op = "add" /\ last.id = id)]

\* this.notifications.find(n => n.id === id): the index of the first match, or 0
Find(list, id) ==
    IF \E k \in 1..Len(list) : list[k].id = id
    THEN CHOOSE k \in 1..Len(list) :
            /\ list[k].id = id
            /\ \A j \in 1..(k - 1) : list[j].id # id
    ELSE 0

\* a markAsRead that marks every notice once one matches
markAllAsRead(id) ==
    /\ IF \E k \in 1..Len(notifications) : notifications[k].id = id
       THEN /\ notifications' =
                 [k \in 1..Len(notifications) |->
                    [notifications[k] EXCEPT !.read = TRUE]]
            /\ last' = [op |-> "markAsRead", id |-> id,
                        invoked |-> notifySubscribers.invoked,
                        threw |-> notifySubscribers.threw,
                        passed |-> notifications']
       ELSE /\ UNCHANGED notifications
            /\ last' = [op |-> "markAsRead", id |-> id, invoked |-> <<>>,
                        threw |-> FALSE, passed |-> <<>>]
    /\ UNCHANGED <<now, removeTimers, nqSubscribers>>

markAsRead(id) ==
    LET k == Find(notifications, id)
    IN /\ IF k # 0
          THEN /\ notifications' = [notifications EXCEPT ![k].read = TRUE]
               /\ last' = [op |-> "markAsRead", id |-> id,
                           invoked |-> notifySubscribers.invoked,
                           threw |-> notifySubscribers.threw,
                           passed |-> notifications']
          ELSE /\ UNCHANGED notifications
               /\ last' = [op |-> "markAsRead", id |-> id, invoked |-> <<>>,
                           threw |-> FALSE, passed |-> <<>>]
       /\ UNCHANGED <<now, removeTimers, nqSubscribers>>

\* the object literals the constructors hand to add
successNotification(message, options) ==
    Spread([type |-> "success", message |-> message], options)

errorNotification(message, options) ==
    Spread([type |-> "error", message |-> message, persistent |-> TRUE], options)

warningNotification(message, options) ==
    Spread([type |-> "warning", message |-> message], options)

infoNotification(message, options) ==
    Spread([type |-> "info", message |-> message], options)

success(message, options) == add(successNotification(message, options))

error(message, options) == add(errorNotification(message, options))

warning(message, options) == add(warningNotification(message, options))

info(message, options) == add(infoNotification(message, options))

nqSubscribe(callback) ==
    /\ nqSubscribers' = SetAdd(nqSubscribers, callback)
    /\ last' = [op |-> "subscribe", cb |-> callback]
    /\ UNCHANGED <<now, notifications, removeTimers>>

nqUnsubscribe(callback) ==
    /\ nqSubscribers' = Without(nqSubscribers, callback)
    /\ last' = [op |-> "unsubscribe", cb |-> callback]
    /\ UNCHANGED <<now, notifications, removeTimers>>

(***************************************************************************)
(* Specification of the notification queue.                                *)
(***************************************************************************)
NqCallbacks == {"setNotifications"}

\* ids a caller may pass to remove and markAsRead
KnownIds == {notifications[k].id : k \in 1..Len(notifications)} \cup {"unknown"}

\* the options each constructor is called with: every override is passed
\* to one constructor; persistent: false to the one whose default is true,
\* persistent: true to one whose default is not
OptionsOf(type) ==
    CASE type = "success" -> Options \ {[persistent |-> TRUE], [persistent |-> FALSE]}
      [] type = "error" -> {<<>>, [persistent |-> FALSE]}
      [] type = "warning" -> {[persistent |-> TRUE]}
      [] OTHER -> {<<>>}

Success ==
    (\E m \in Messages, o \in OptionsOf("success") : success(m, o)) /\ UNCHANGED <<rtState, authVars>>
Error ==
    (\E m \in Messages, o \in OptionsOf("error") : error(m, o)) /\ UNCHANGED <<rtState, authVars>>
Warning ==
    (\E m \in Messages, o \in OptionsOf("warning") : warning(m, o)) /\ UNCHANGED <<rtState, authVars>>
Info ==
    (\E m \in Messages, o \in OptionsOf("info") : info(m, o)) /\ UNCHANGED <<rtState, authVars>>

Remove ==
    /\ \E id \in KnownIds : remove(id, "remove")
    /\ UNCHANGED <<now, removeTimers, nqSubscribers, rtState, authVars>>

MarkAsRead == (\E id \in KnownIds : markAsRead(id)) /\ UNCHANGED <<rtState, authVars>>

\* the auto-removal timer that is due runs this.remove(id)
AutoRemove ==
    /\ removeTimers # <<>>
    /\ Head(removeTimers).due <= now
    /\ remove(Head(removeTimers).id, "autoRemove")
    /\ removeTimers' = Tail(removeTimers)
    /\ UNCHANGED <<now, nqSubscribers, rtState, authVars>>

\* the clock advances once every timer that is due has run
Tick ==
    /\ now + TickMs <= MaxTicks * TickMs
    /\ \A k \in 1..Len(removeTimers) : removeTimers[k].due > now
    /\ now' = now + TickMs
    /\ last' = [op |-> "tick"]
    /\ UNCHANGED <<notifications, removeTimers, nqSubscribers, rtState, authVars>>

NqSubscribe == (\E cb \in NqCallbacks : nqSubscribe(cb)) /\ UNCHANGED <<rtState, authVars>>
NqUnsubscribe ==
    (\E cb \in NqCallbacks : cb \in Range(nqSubscribers) /\ nqUnsubscribe(cb))
    /\ UNCHANGED <<rtState, authVars>>

NextNQ ==
    \/ Success
    \/ Error
    \/ Warning
    \/ Info
    \/ Remove
    \/ MarkAsRead
    \/ AutoRemove
    \/ Tick
    \/ NqSubscribe
    \/ NqUnsubscribe

SpecNQ == Init /\ [][NextNQ]_vars

(***************************************************************************)
(* AuthProvider.  An async function is two steps: the call up to its       *)
(* await, and what it does once the HTTP response is there.                *)
(***************************************************************************)
Null == "null"

\* tokens the server issues, and what localStorage may hold at startup
ServerTokens == {"t1", "t2"}

\* user objects the server returns
Users == {"u1"}

Endpoints == {"login", "register", "getProfile", "updateProfile"}

\* how a request ends: response with data, response without, rejection
Outcomes == {"data", "nodata", "rejected"}

\* request(): the Authorization header carries apiService's token
Sent(reqs, e, bearer) == [reqs EXCEPT ![e] = Append(@, bearer)]

\* the i-th request to e in flight has its response
Answered(reqs, e, i) ==
    [reqs EXCEPT ![e] = SubSeq(@, 1, i - 1) \o SubSeq(@, i + 1, Len(@))]

\* the server answers a profile request with data only if it bore a token
Authorized(e, i, outcome) == outcome = "data" => requests[e][i] # Null

\* useEffect(..., [token]) after a render in which the token state is tok;
\* ran: whether tok differs from the token of the render before. With reqs
\* the requests in flight before it, the effect leaves this behind.
useEffect(tok, ran, reqs, load) ==
    IF ~ran THEN [apiToken |-> apiToken, requests |-> reqs, loading |-> load]
    ELSE IF tok # Null
         \* apiService.current.setToken(token); loadUser() up to its await
         THEN [apiToken |-> tok, requests |-> Sent(reqs, "getProfile", tok), loading |-> load]
         \* setLoading(false)
         ELSE [apiToken |-> apiToken, requests |-> reqs, loading |-> FALSE]

\* room for the request the effect sends
CanLoad(tok, ran, reqs) == (ran /\ tok # Null) => Len(reqs["getProfile"]) < MaxRequests

\* the first render: localStorage holds what an earlier session left there
Mount(stored) ==
    /\ ~mounted
    /\ mounted' = TRUE
    /\ storage' = stored
    /\ authToken' = stored
    /\ user' = Null
    /\ LET eff == useEffect(stored, TRUE, requests, TRUE)
       IN /\ apiToken' = IF stored # Null THEN eff.apiToken ELSE stored
          /\ requests' = eff.requests
          /\ loading' = eff.loading
    /\ loggedOut' = FALSE
    /\ last' = [op |-> "mount"]

\* login and register up to the await: the request is sent
login ==
    /\ mounted
    /\ Len(requests["login"]) < MaxRequests
    /\ requests' = Sent(requests, "login", apiToken)
    /\ last' = [op |-> "login"]
    /\ UNCHANGED <<mounted, user, loading, authToken, storage, apiToken, loggedOut>>

register ==
    /\ mounted
    /\ Len(requests["register"]) < MaxRequests
    /\ requests' = Sent(requests, "register", apiToken)
    /\ last' = [op |-> "register"]
    /\ UNCHANGED <<mounted, user, loading, authToken, storage, apiToken, loggedOut>>

\* login and register after the await (their bodies are the same): with
\* data, localStorage.setItem, setToken, setUser, then the token effect
signedIn(endpoint, i, outcome, newToken, userData) ==
    /\ i \in 1..Len(requests[endpoint])
    /\ IF outcome = "data"
       THEN LET reqs == Answered(requests, endpoint, i)
                ran == newToken # authToken
                eff == useEffect(newToken, ran, reqs, loading)
            IN /\ CanLoad(newToken, ran, reqs)
               /\ storage' = newToken
               /\ authToken' = newToken
               /\ user' = userData
               /\ apiToken' = eff.apiToken
               /\ requests' = eff.requests
               /\ loading' = eff.loading
               /\ loggedOut' = FALSE
       ELSE /\ requests' = Answered(requests, endpoint, i)
            /\ UNCHANGED <<user, loading, authToken, storage, apiToken, loggedOut>>
    /\ last' = [op |-> "signedIn", endpoint |-> endpoint, outcome |-> outcome]
    /\ UNCHANGED mounted

loginAwaited(i, outcome, newToken, userData) ==
    signedIn("login", i, outcome, newToken, userData)

registerAwaited(i, outcome, newToken, newUser) ==
    signedIn("register", i, outcome, newToken, newUser)

\* logout(): removeItem, setToken(null), setUser(null), then the token
\* effect; reqs are the requests in flight, load the loading state before it
loggingOut(reqs, load) ==
    LET eff == useEffect(Null, authToken # Null, reqs, load)
    IN /\ storage' = Null
       /\ authToken' = Null
       /\ user' = Null
       /\ apiToken' = eff.apiToken
       /\ requests' = eff.requests
       /\ loading' = eff.loading
       /\ loggedOut' = TRUE

logout ==
    /\ mounted
    /\ loggingOut(requests, loading)
    /\ last' = [op |-> "logout"]
    /\ UNCHANGED mounted

\* loadUser after the await: setUser(userData), or logout() in the catch;
\* setLoading(false) in the finally
loadUserAwaited(i, outcome, userData) ==
    /\ i \in 1..Len(requests["getProfile"])
    /\ Authorized("getProfile", i, outcome)
    /\ IF outcome = "data"
       THEN /\ user' = userData
            /\ loading' = FALSE
            /\ requests' = Answered(requests, "getProfile", i)
            /\ UNCHANGED <<authToken, storage, apiToken, loggedOut>>
       ELSE loggingOut(Answered(requests, "getProfile", i), FALSE)
    /\ last' = [op |-> "loadUserAwaited", outcome |-> outcome]
    /\ UNCHANGED mounted

\* updateProfile up to the await: the PATCH request is sent
updateProfile ==
    /\ mounted
    /\ Len(requests["updateProfile"]) < MaxRequests
    /\ requests' = Sent(requests, "updateProfile", apiToken)
    /\ last' = [op |-> "updateProfile"]
    /\ UNCHANGED <<mounted, user, loading, authToken, storage, apiToken, loggedOut>>

\* updateProfile after the await: setUser(updatedUser), or nothing
updateProfileAwaited(i, outcome, updatedUser) ==
    /\ i \in 1..Len(requests["updateProfile"])
    /\ Authorized("updateProfile", i, outcome)
    /\ requests' = Answered(requests, "updateProfile", i)
    /\ user' = IF outcome = "data" THEN updatedUser ELSE user
    /\ last' = [op |-> "updateProfileAwaited", outcome |-> outcome]
    /\ UNCHANGED <<mounted, loading, authToken, storage, apiToken, loggedOut>>

(***************************************************************************)
(* Specification of the auth provider.                                     *)
(***************************************************************************)
Mounting ==
    (\E stored \in ServerTokens \cup {Null} : Mount(stored)) /\ UNCHANGED <<rtState, nqVars>>
Login == login /\ UNCHANGED <<rtState, nqVars>>
Register == register /\ UNCHANGED <<rtState, nqVars>>
Logout == logout /\ UNCHANGED <<rtState, nqVars>>
UpdateProfile == updateProfile /\ UNCHANGED <<rtState, nqVars>>
LoginResponse ==
    /\ \E i \in 1..MaxRequests, o \in Outcomes, t \in ServerTokens, u \in Users :
          loginAwaited(i, o, t, u)
    /\ UNCHANGED <<rtState, nqVars>>
RegisterResponse ==
    /\ \E i \in 1..MaxRequests, o \in Outcomes, t \in ServerTokens, u \in Users :
          registerAwaited(i, o, t, u)
    /\ UNCHANGED <<rtState, nqVars>>
ProfileResponse ==
    /\ \E i \in 1..MaxRequests, o \in {"data", "rejected"}, u \in Users :
          loadUserAwaited(i, o, u)
    /\ UNCHANGED <<rtState, nqVars>>
UpdateResponse ==
    /\ \E i \in 1..MaxRequests, o \in {"data", "rejected"}, u \in Users :
          updateProfileAwaited(i, o, u)
    /\ UNCHANGED <<rtState, nqVars>>

NextAuth ==
    \/ Mounting
    \/ Login
    \/ Register
    \/ Logout
    \/ UpdateProfile
    \/ LoginResponse
    \/ RegisterResponse
    \/ ProfileResponse
    \/ UpdateResponse

SpecAuth == Init /\ [][NextAuth]_vars

(***************************************************************************)
(* Claims about the push client.                                           *)
(***************************************************************************)
Connecting(ss) == Cardinality({i \in 1..Len(ss) : ss[i].readyState = "CONNECTING"})

NoLiveSocket == Live(socks) = {}

\* C1: the close event of a connection that disconnect() closed (the socket
\* was CLOSING) neither increments the retry counter nor schedules a timer.
C1_DisconnectSkipsReconnect ==
    [][(last'.op = "close" /\ last'.was = "CLOSING")
         => /\ reconnectAttempts' = reconnectAttempts
            /\ reconnectTimers' = reconnectTimers]_vars

\* C2: when the backoff timer of attempt 1 fires and the client holds no open
\* connection, the client opens a new transport connection by itself.
C2_TimerReconnects ==
    [][(last'.op = "reconnectTimer" /\ last'.attempt = 1 /\ ~wsOpen)
         => Connecting(socks') = Connecting(socks) + 1]_vars

\* C3: the retry counter stays within 0..maxReconnectAttempts and equals the
\* number of closes since the last open, capped at maxReconnectAttempts; a
\* close at the cap schedules no timer and leaves the counter at the cap.
C3_CounterRange ==
    /\ reconnectAttempts \in 0..maxReconnectAttempts
    /\ reconnectAttempts = Min(closes, maxReconnectAttempts)

C3_NoTimerAtCap ==
    [][(last'.op = "close" /\ closes >= maxReconnectAttempts)
         => /\ reconnectTimers' = reconnectTimers
            /\ reconnectAttempts' = maxReconnectAttempts]_vars

\* C3: both parts: the counter's range in every state, and no timer at the cap.
C3_AttemptsBounded == []C3_CounterRange /\ C3_NoTimerAtCap

\* reached: a sixth close in a row, with the counter left at five
C3_Witness ==
    /\ last.op = "close"
    /\ closes = maxReconnectAttempts + 1
    /\ reconnectAttempts = maxReconnectAttempts

\* C4: no state has every connection closed and the retries exhausted while
\* the status last delivered to the subscribed provider is still connected.
C4_OfflineIsSurfaced ==
    ( /\ NoLiveSocket
      /\ reconnectAttempts = maxReconnectAttempts
      /\ "setConnectionStatus" \in Range(Registered("connection")) )
    => connectionStatus # "connected"

\* the envelope a text on the wire decodes to
Decoded(text) == [type |-> JSONparse(text).type, payload |-> JSONparse(text).payload]

\* C10: send puts exactly one {type, payload} envelope on the wire when this.ws
\* is open and otherwise changes nothing; nothing else writes to the wire.
C10_SendIffOpen ==
    [][ /\ last'.op = "send" =>
            /\ IF wsOpen
               THEN /\ Len(wire') = Len(wire) + 1
                    /\ SubSeq(wire', 1, Len(wire)) = wire
                    /\ Decoded(wire'[Len(wire')]) =
                         [type |-> last'.type, payload |-> last'.payload]
               ELSE wire' = wire
            /\ UNCHANGED <<ws, socks, reconnectAttempts, reconnectTimers,
                           subscribers, connectionStatus>>
        /\ wire' # wire => (last'.op = "send" /\ wsOpen) ]_vars

\* reached: a send while the connection is still opening, the wire left empty
C10_Witness ==
    /\ last.op = "send"
    /\ ~last.open
    /\ ws # 0
    /\ socks[ws].readyState = "CONNECTING"
    /\ wire = <<>>

\* C8: when a callback throws during a dispatch, every other callback
\* registered under the key is still invoked in that dispatch.
C8_ThrowIsIsolated ==
    (last.op \in {"open", "message"} /\ last.threw)
    => Range(last.invoked) = Range(last.registered)

\* C9: a dispatch invokes each callback registered under its key exactly
\* once, and no callback that is not registered under it.
C9_ExactlyRegistered ==
    last.op \in {"open", "message"}
    => /\ Range(last.invoked) = Range(last.registered)
       /\ Len(last.invoked) = Cardinality(Range(last.invoked))

\* the connections the client created that can still deliver open and
\* message events to it
Delivering(ss) == {i \in 1..Len(ss) : ss[i].readyState \in {"CONNECTING", "OPEN"}}

\* C12: in every reachable state at most one connection created by the
\* client is live and able to deliver events to it.
C12_SingleConnection == Cardinality(Delivering(socks)) <= 1

\* C13: when a connection opens, the retry counter becomes zero and the
\* connection event with status connected reaches every callback subscribed
\* to "connection" at that moment (the provider's callback then shows
\* "connected").
C13_OpenResetsAndAnnounces ==
    [][last'.op = "open"
         => /\ reconnectAttempts' = 0
            /\ Range(last'.invoked) = Range(Registered("connection"))
            /\ "setConnectionStatus" \in Range(Registered("connection"))
                  => connectionStatus' = "connected"]_vars

\* the position of callback x in the set s
Pos(s, x) == CHOOSE i \in 1..Len(s) : s[i] = x

\* the callbacks of after are those of before without x, each once and in
\* the order they had
SetMinus(before, after, x) ==
    /\ Range(after) = Range(before) \ {x}
    /\ Len(after) = Cardinality(Range(after))
    /\ \A a, b \in Range(after) :
          Pos(after, a) < Pos(after, b) <=> Pos(before, a) < Pos(before, b)

\* C19: invoking the handle of subscribe(key, cb) removes cb from the set of
\* key and nothing else: the other callbacks of key stay, in their order,
\* every other key keeps its set, and invoking the handle when cb is no
\* longer under key changes nothing.
C19_HandleRemovesExactly ==
    [][last'.op = "unsubscribe"
         => /\ DOMAIN subscribers' = DOMAIN subscribers
            /\ SetMinus(subscribers[last'.key], subscribers'[last'.key], last'.cb)
            /\ \A k \in DOMAIN subscribers \ {last'.key} :
                  subscribers'[k] = subscribers[k]
            /\ last'.cb \notin Range(subscribers[last'.key])
                  => subscribers' = subscribers
            /\ (last.op = "unsubscribe" /\ last.key = last'.key /\ last.cb = last'.cb)
                  => subscribers' = subscribers]_vars

\* reached: a handle has removed its callback from its key while another
\* callback stays under that key and the same callback stays under another
C19_Witness ==
    /\ last.op = "unsubscribe"
    /\ last.deleted
    /\ subscribers[last.key] # <<>>
    /\ \E k \in DOMAIN subscribers \ {last.key} : last.cb \in Range(subscribers[k])

\* C20: no set of the registry holds a callback twice.
C20_NoDuplicates ==
    \A k \in DOMAIN subscribers :
        Len(subscribers[k]) = Cardinality(Range(subscribers[k]))

\* C20: subscribing a callback that is already under the key leaves the
\* registry as it is.
C20_ResubscribeChangesNothing ==
    [][(last'.op = "subscribe" /\ ~last'.added) => subscribers' = subscribers]_vars

\* C20: the dispatch of key k that follows the second subscribe(k, f)
\* invokes f exactly once.
C20_DispatchOnce ==
    [][( /\ last.op = "subscribe" /\ ~last.added
         /\ last'.op \in {"open", "message"} /\ last'.key = last.key )
         => Times(last'.invoked, last.cb) = 1]_vars

\* C20: one invocation of a handle leaves its callback unregistered under
\* its key, however often it was subscribed.
C20_OneHandleUnregisters ==
    [][last'.op = "unsubscribe"
         => last'.cb \notin Range(subscribers'[last'.key])]_vars

\* C20: all of it.
C20_DuplicateIsIdempotent ==
    /\ []C20_NoDuplicates
    /\ C20_ResubscribeChangesNothing
    /\ C20_DispatchOnce
    /\ C20_OneHandleUnregisters

\* C21: a dispatch invokes every callback that is under the key when it
\* starts, also the one that a callback of this dispatch unsubscribes before
\* its turn; the unsubscription shows in the registry the dispatch leaves.
C21_DispatchReachesAllAtStart ==
    [][last'.op \in {"open", "message"}
         => /\ \A cb \in Range(Registered(last'.key)) :
                  Times(last'.invoked, cb) = 1
            /\ ( /\ "canceller" \in Range(Registered(last'.key))
                 /\ last'.key \in DOMAIN subscribers' )
                  => Cancelled \notin Range(subscribers'[last'.key])]_vars

\* a text that does not parse as an Event Envelope
Malformed(text) == text.kind # "object" \/ "type" \notin DOMAIN text

\* C11: a message that fails to parse as an Event Envelope invokes no
\* callback, lets no exception leave the handler, and leaves the registry,
\* the retry counter, the provider's status and the sockets (the connection
\* stays open) as they were.
C11_MalformedIsDropped ==
    [][(last'.op = "message" /\ Malformed(last'.text))
         => /\ last'.invoked = <<>>
            /\ ~last'.escaped
            /\ UNCHANGED <<subscribers, reconnectAttempts, reconnectTimers,
                           connectionStatus, ws, socks>>
            /\ \E i \in 1..Len(socks') : socks'[i].readyState = "OPEN"]_vars

\* reached: a malformed message was handled while callbacks are registered
\* and the connection is still open
C11_Witness ==
    /\ last.op = "message"
    /\ last.text.kind = "invalid"
    /\ wsOpen
    /\ \E k \in DOMAIN subscribers : subscribers[k] # <<>>

(***************************************************************************)
(* Claims about the notification queue.                                    *)
(***************************************************************************)
NoTimerDue == \A k \in 1..Len(removeTimers) : removeTimers[k].due > now

\* C5: a persistent notice leaves the list only in a remove(id) call of its
\* own id; no other call and no timer removes it.
C5_PersistentStays ==
    [][\A k \in 1..Len(notifications) :
         ( /\ Persistent(notifications[k])
           /\ ~(last'.op = "remove" /\ last'.id = notifications[k].id) )
         => \E j \in 1..Len(notifications') :
               /\ notifications'[j].id = notifications[k].id
               /\ Persistent(notifications'[j])]_vars

\* C6: no two notices in the list have the same id.
C6_UniqueIds ==
    \A i, j \in 1..Len(notifications) :
        i # j => notifications[i].id # notifications[j].id

\* C7: a non-persistent notice is gone once its delay has elapsed and the
\* timers that are due have run, and until its delay has elapsed only a
\* remove call takes it out of the list.
C7_GoneAfterDelay ==
    \A k \in 1..Len(notifications) :
        ( /\ ~Persistent(notifications[k])
          /\ now >= notifications[k].timestamp + AutoRemoveDelay )
        => ~NoTimerDue

C7_PresentBeforeDelay ==
    [][\A k \in 1..Len(notifications) :
         ( /\ ~Persistent(notifications[k])
           /\ now' < notifications[k].timestamp + AutoRemoveDelay
           /\ last'.op # "remove" )
         => \E j \in 1..Len(notifications') :
               /\ notifications'[j].id = notifications[k].id
               /\ notifications'[j].timestamp = notifications[k].timestamp]_vars

\* C7: both parts: gone after the delay, present before it.
C7_AutoRemoval == []C7_GoneAfterDelay /\ C7_PresentBeforeDelay

\* C14: an add, through any constructor and with any overrides, puts the new
\* notice at the head of the list with read = false and keeps every earlier
\* notice, unchanged and in the same order, behind it.
C14_AddPrepends ==
    [][last'.op = "add"
         => /\ Len(notifications') = Len(notifications) + 1
            /\ notifications'[1].read = FALSE
            /\ Tail(notifications') = notifications]_vars

\* whether the caller's overrides set persistent, and to what
Overrides(options, value) == "persistent" \in DOMAIN options /\ options.persistent = value

\* C15: error(...) gives persistent = true unless the overrides set it false;
\* success, warning and info give a non-persistent notice unless the
\* overrides set it true.
C15_Defaults ==
    \A m \in Messages, o \in Options :
        /\ Persistent(errorNotification(m, o)) = ~Overrides(o, FALSE)
        /\ Persistent(successNotification(m, o)) = Overrides(o, TRUE)
        /\ Persistent(warningNotification(m, o)) = Overrides(o, TRUE)
        /\ Persistent(infoNotification(m, o)) = Overrides(o, TRUE)

\* C15: add sets the removal timer exactly for a non-persistent notice.
C15_TimerIffNotPersistent ==
    [][last'.op = "add"
         => (removeTimers' # removeTimers) = ~Persistent(notifications'[1])]_vars

\* C15: the removal timer takes no persistent notice out of the list.
C15_TimerSparesPersistent ==
    [][last'.op = "autoRemove"
         => \A k \in 1..Len(notifications) :
               Persistent(notifications[k])
                 => \E j \in 1..Len(notifications') :
                       notifications'[j] = notifications[k]]_vars

\* C15: a non-persistent notice does not outlive its delay: once the delay
\* has elapsed a timer is due that has yet to run.
C15_NonPersistentExpires ==
    \A k \in 1..Len(notifications) :
        ( /\ ~Persistent(notifications[k])
          /\ now >= notifications[k].timestamp + AutoRemoveDelay )
        => \E t \in 1..Len(removeTimers) : removeTimers[t].due <= now

\* C15: all of it: the defaults of the constructors, the timer they set, and
\* what the timer removes.
C15_PersistenceByConstructor ==
    /\ [](C15_Defaults /\ C15_NonPersistentExpires)
    /\ C15_TimerIffNotPersistent
    /\ C15_TimerSparesPersistent

\* the positions of list whose notice has another id than id
Others(list, id) == {k \in 1..Len(list) : list[k].id # id}

\* after is before without the notices whose id is id: the others, each as
\* it was, in the same relative order
OnlyIdRemoved(before, after, id) ==
    LET keep == Others(before, id)
        \* the position in before of the j-th notice that stays
        nth(j) == CHOOSE k \in keep : Cardinality({i \in keep : i <= k}) = j
    IN /\ Len(after) = Cardinality(keep)
       /\ \A j \in 1..Len(after) : after[j] = before[nth(j)]

SameButRead(a, b) ==
    /\ DOMAIN a = DOMAIN b
    /\ \A f \in DOMAIN a \ {"read"} : a[f] = b[f]

\* C18: markAsRead(id) sets read on the notice with that id and changes
\* nothing else: the list keeps its length and order, one notice at most
\* differs, and only in read; without a match the list stays as it is.
C18_MarkSetsRead ==
    [][last'.op = "markAsRead"
         => /\ Len(notifications') = Len(notifications)
            /\ \A k \in 1..Len(notifications) :
                  /\ SameButRead(notifications[k], notifications'[k])
                  /\ notifications[k].id # last'.id
                        => notifications'[k] = notifications[k]
                  /\ notifications[k].read => notifications'[k].read
            /\ (\E k \in 1..Len(notifications) : notifications[k].id = last'.id)
                  => \E k \in 1..Len(notifications) :
                        /\ notifications[k].id = last'.id
                        /\ notifications'[k].read
            /\ Cardinality({k \in 1..Len(notifications) :
                               notifications'[k] # notifications[k]}) <= 1
            /\ (\A k \in 1..Len(notifications) : notifications[k].id # last'.id)
                  => notifications' = notifications]_vars

\* C18: no other operation changes a field of a notice in the list: after
\* any other step each notice of the list was in it before, as it is, or is
\* the one an add has just put at the head.
C18_OnlyMarkChangesFields ==
    [][(last'.op # "markAsRead" /\ notifications' # notifications)
         => \A j \in 1..Len(notifications') :
               \/ \E k \in 1..Len(notifications) : notifications'[j] = notifications[k]
               \/ last'.op = "add" /\ j = 1]_vars

\* C18: both parts.
C18_ReadOnlyByMark == C18_MarkSetsRead /\ C18_OnlyMarkChangesFields

\* reached: markAsRead(id) has marked the older of two notices and left the
\* newer one unread
C18_Witness ==
    /\ last.op = "markAsRead"
    /\ Len(notifications) = 2
    /\ notifications[2].id = last.id /\ notifications[2].read
    /\ notifications[1].id # last.id /\ ~notifications[1].read

\* C22: for every add, whatever the overrides carry, the id the call returns
\* is the id of the notice now at the head of the list, and the timer the
\* call sets removes that id.
C22_ReturnedIdIsNoticeId ==
    [][last'.op = "add"
         => /\ notifications'[1].id = last'.id
            /\ removeTimers' # removeTimers
                  => removeTimers'[Len(removeTimers')].id = notifications'[1].id]_vars


(***************************************************************************)
(* Claims about the auth provider.                                         *)
(***************************************************************************)
\* C23: whenever the user is not null, localStorage holds an auth token.
C23_UserHasToken == user # Null => storage # Null

\* C23: once logout has run, the user stays null until a login or register
\* succeeds.
C23_NullAfterLogout == loggedOut => user = Null

\* C23: both parts.
C23_UserImpliesStoredToken == C23_UserHasToken /\ C23_NullAfterLogout

====
